---- MODULE Spec2Model ----
(***************************************************************************)
(* byteweap/arbiter: the orchestration functions of package arbiter        *)
(* (Validate, ValidateWithErrs, ValidateStruct, Field) and the compound    *)
(* rules of package rule (And, Or), over MinRule leaves and the shared     *)
(* predefined rule rule.NotNil.                                            *)
(*                                                                         *)
(* A caller makes one call at a time: a call action runs the whole         *)
(* function and leaves its arguments, its result and the order in which    *)
(* it invoked the rules in the state; Return hands control back.           *)
(* Strings are sequences of tokens; a token is one character ("a", "%")    *)
(* or an opaque piece of text that holds no '%'.                           *)
(***************************************************************************)
EXTENDS Integers, Sequences, FiniteSets, TLC

\* Bounds of the model.
MaxRules == 4        \* longest rule list handed to Validate, ValidateWithErrs, And, Or
MaxFields == 2       \* most field bindings handed to ValidateStruct
MaxFieldRules == 1   \* most rules in one field binding
MaxLen == 2          \* longest nilErr or Errf format string, in characters
MaxValues == 2       \* longest values list of a MutualExclude rule
AgeMargin == 2       \* how far below MinAge and above MaxAge the ages go
MaxNodes == 4        \* most rules (And, Or and leaves) in a nested rule
MaxAbs == 3          \* the bases and values of a MultipleRule are -MaxAbs..MaxAbs
MaxGoroutines == 2   \* goroutines that run calls at the same time

MinAge == 0          \* Field(&person.Age, rule.Min(0), rule.Max(120))
MaxAge == 120

Values == {0, 1}     \* the integers validated
Mins == {0, 1}       \* the thresholds of the MinRule leaves
Chars == {"a", "%"}  \* the characters of a nilErr string
ErrNames == <<"E1", "E2", "E3", "E4", "E5", "E6">>

VARIABLES
    op,       \* the call that has just returned, or "idle"
    value,    \* its value argument
    rules,    \* its rule list (the children, for And and Or)
    nilErr,   \* ValidateStruct's nilErr argument
    fields,   \* ValidateStruct's field bindings
    ret,      \* the error returned
    errs,     \* the list returned by ValidateWithErrs
    invoked,  \* indices of the rules (bindings) invoked, in invocation order
    NotNil,   \* the package variable rule.NotNil
    person,   \* the caller's record, the target of the bindings' pointers
    heap,     \* the rule objects the caller has constructed, by address
    ref,      \* the pointer the last constructor or Errf call returned, or 0
    fmtArg,   \* the format string of the last Errf call
    override, \* history: the last non-empty format handed to Errf on heap[1]
    bound,    \* the field bindings the caller has built with Field and kept
    snapshot, \* history: the record as it was when bound was built
    pc,       \* where each goroutine is in the call it runs, or "idle"
    local,    \* each goroutine's arguments, local variables and result
    compiledRegexes,  \* the package's cache: the patterns it holds
    regexMutex        \* the package's sync.RWMutex: its readers and writer

ruleVars == <<heap, ref, fmtArg, override>>

fieldVars == <<bound, snapshot>>

goVars == <<pc, local, compiledRegexes, regexMutex>>

vars ==
    <<op, value, rules, nilErr, fields, ret, errs, invoked, NotNil, person,
      heap, ref, fmtArg, override, bound, snapshot, pc, local,
      compiledRegexes, regexMutex>>

----------------------------------------------------------------------------
\* Errors and formatting.

Nil == [isNil |-> TRUE, msg |-> <<>>]

NewError(text) == [isNil |-> FALSE, msg |-> text]

\* fmt.Sprintf(format) with no operands: "%%" prints "%", a verb with no
\* operand prints "%!v(MISSING)", a lone trailing '%' prints "%!(NOVERB)".
RECURSIVE Sprintf(_)
Sprintf(format) ==
    IF format = <<>> THEN <<>>
    ELSE IF Head(format) # "%" THEN <<Head(format)>> \o Sprintf(Tail(format))
    ELSE IF Len(format) = 1 THEN <<"%!(NOVERB)">>
    ELSE IF format[2] = "%" THEN <<"%">> \o Sprintf(SubSeq(format, 3, Len(format)))
    ELSE <<"%!", format[2], "(MISSING)">> \o Sprintf(SubSeq(format, 3, Len(format)))

Errorf(format) == NewError(Sprintf(format))

ErrMin == NewError(<<"value is less than minimum">>)
ErrCondition == NewError(<<"condition validation failed">>)
ErrNotNil == NewError(<<"must not be nil">>)
ErrNotPointer == NewError(<<"value must be a pointer">>)
ErrMax == NewError(<<"value is greater than maximum">>)
ErrDependency == NewError(<<"dependency validation failed">>)
ErrMutualExclude == NewError(<<"mutual exclude validation failed">>)
ErrNonZero == NewError(<<"value must be non-zero">>)

----------------------------------------------------------------------------
\* Rules. Every rule is a record with the fields of all rule kinds.

Rule(kind, e, min, not, children) ==
    [kind |-> kind, e |-> e, min |-> min, not |-> not, rules |-> children]

Min(min) == Rule("Min", ErrMin, min, FALSE, <<>>)

MinRuleErrf(r, format) ==
    IF format # <<>> THEN [r EXCEPT !.e = Errorf(format)] ELSE r

MinRuleValidate(r, v) ==
    IF v < r.min
    THEN IF r.e # Nil THEN r.e
         ELSE NewError(<<"value is less than minimum (formatted)">>)
    ELSE Nil

Max(max) == [kind |-> "Max", e |-> ErrMax, max |-> max]

MaxRuleErrf(r, format) ==
    IF format # <<>> THEN [r EXCEPT !.e = Errorf(format)] ELSE r

\* MaxRuleValidate with the maximum itself rejected.
MaxRuleValidateStrict(r, v) ==
    IF v >= r.max
    THEN IF r.e # Nil THEN r.e
         ELSE NewError(<<"value is greater than maximum (formatted)">>)
    ELSE Nil

MaxRuleValidate(r, v) ==
    IF v > r.max
    THEN IF r.e # Nil THEN r.e
         ELSE NewError(<<"value is greater than maximum (formatted)">>)
    ELSE Nil

And(children) == Rule("AND", ErrCondition, 0, FALSE, children)

Or(children) == Rule("OR", ErrCondition, 0, FALSE, children)

ConditionRuleErrf(r, format) ==
    IF format # <<>> THEN [r EXCEPT !.e = Errorf(format)] ELSE r

\* A nil Rule interface value.
NoRule == [kind |-> "nil"]

\* valueGetter is a function from the record to one of its fields, named
\* by the field it returns.
Dependency(field, dependency, validator, valueGetter) ==
    [kind |-> "Dependency", e |-> ErrDependency, field |-> field,
     dependency |-> dependency, validator |-> validator,
     valueGetter |-> valueGetter]

DependencyRuleErrf(r, format) ==
    IF format # <<>> THEN [r EXCEPT !.e = Errorf(format)] ELSE r

\* compare is a named binary predicate, or "nil" for a nil func.
MutualExclude(fieldNames, values, compare) ==
    [kind |-> "MutualExclude", e |-> ErrMutualExclude, fields |-> fieldNames,
     values |-> values, compare |-> compare]

Compare(compare, a, b) ==
    CASE compare = "eq" -> a = b
      [] compare = "lt" -> a < b

MutualExcludeRuleErrf(r, format) ==
    IF format # <<>> THEN [r EXCEPT !.e = Errorf(format)] ELSE r

\* The scan of MutualExcludeRule.Validate run over the fields list.
RECURSIVE MutualExcludeFromFields(_, _, _)
MutualExcludeFromFields(r, v, i) ==
    IF i > Len(r.fields) THEN FALSE
    ELSE IF Compare(r.compare, r.fields[i], v) THEN TRUE
         ELSE MutualExcludeFromFields(r, v, i + 1)

\* The scan of MutualExcludeRule.Validate with the comparator's arguments
\* exchanged.
RECURSIVE MutualExcludeFromSwapped(_, _, _)
MutualExcludeFromSwapped(r, v, i) ==
    IF i > Len(r.values) THEN FALSE
    ELSE IF Compare(r.compare, v, r.values[i]) THEN TRUE
         ELSE MutualExcludeFromSwapped(r, v, i + 1)

\* The scan of MutualExcludeRule.Validate from element i on: valid.
RECURSIVE MutualExcludeFrom(_, _, _)
MutualExcludeFrom(r, v, i) ==
    IF i > Len(r.values) THEN FALSE
    ELSE IF Compare(r.compare, r.values[i], v) THEN TRUE
         ELSE MutualExcludeFrom(r, v, i + 1)

\* MutualExcludeRule.Validate without the test for a nil comparator: no
\* element is found to match.
MutualExcludeRuleValidateNilFails(r, v) ==
    IF r.compare = "nil" THEN r.e
    ELSE IF ~MutualExcludeFrom(r, v, 1) THEN r.e ELSE Nil

MutualExcludeRuleValidate(r, v) ==
    IF r.compare = "nil" THEN Nil
    ELSE IF ~MutualExcludeFrom(r, v, 1) THEN r.e ELSE Nil

\* fmt.Errorf(ErrMultipleFormat, base)
MultipleOf(base) ==
    [kind |-> "Multiple", base |-> base,
     e |-> NewError(<<"is not a multiple of ", base>>)]

MultipleRuleErrf(r, format) ==
    IF format # <<>> THEN [r EXCEPT !.e = Errorf(format)] ELSE r

Abs(n) == IF n < 0 THEN -n ELSE n

\* Go's x % y for y # 0: the remainder of the division truncated towards
\* zero, which has the sign of x.
Rem(x, y) == IF x < 0 THEN -(Abs(x) % Abs(y)) ELSE x % Abs(y)

\* MultipleRule.Validate: the error returned, or the run-time panic
\* "integer divide by zero" that value % 0 raises.
MultipleRuleValidate(r, v) ==
    IF r.base = 0 THEN [panic |-> TRUE, err |-> Nil]
    ELSE IF Rem(v, r.base) # 0 THEN [panic |-> FALSE, err |-> r.e]
    ELSE [panic |-> FALSE, err |-> Nil]

NonZero == [kind |-> "NonZero", e |-> ErrNonZero]

NonZeroRuleErrf(r, format) ==
    IF format # <<>> THEN [r EXCEPT !.e = Errorf(format)] ELSE r

\* A value as reflection sees it in NonZeroRule.Validate: its Kind; its
\* state ("zero" or "nonzero"; for a slice or map "nil", "empty" or
\* "nonzero"; for an array "empty" or "nonzero"; for a struct "zero" when all
\* fields are zero; for a pointer "nil" or "nonzero"); and a pointer's target.
Reflect(kind, state, elem) == [kind |-> kind, state |-> state, elem |-> elem]

NonZeroRuleValidate(r, val) ==
    IF val.kind = "Ptr" /\ val.state = "nil" THEN ErrNonZero
    ELSE LET v == IF val.kind = "Ptr" THEN val.elem ELSE val
         IN CASE v.kind \in {"Int", "Uint", "Float", "String", "Bool"} ->
                    IF v.state = "zero" THEN ErrNonZero ELSE Nil
              [] v.kind \in {"Slice", "Map"} ->
                    IF v.state \in {"nil", "empty"} THEN ErrNonZero ELSE Nil
              [] v.kind = "Array" ->
                    IF v.state = "empty" THEN ErrNonZero ELSE Nil
              [] v.kind = "Struct" ->
                    IF v.state # "zero" THEN Nil ELSE r.e
              [] OTHER -> Nil

\* The value handed to reflect.ValueOf: its Kind, the Kind of its element
\* type, and whether it is a nil pointer.
ValueOf(kind, elem, isNil) == [kind |-> kind, elem |-> elem, isNil |-> isNil]

NilRuleErrf(r, format) ==
    IF format # <<>> THEN [r EXCEPT !.e = Errorf(format)] ELSE r

NilRuleValidate(r, v) ==
    IF v.kind = "Struct" THEN NewError(<<"unsupported type: ", "struct">>)
    ELSE LET isNil == CASE v.kind = "Invalid" -> TRUE
                        [] v.kind = "Int" -> FALSE
                        [] v.kind = "Ptr" -> v.isNil
         IN IF (r.not /\ isNil) \/ (~r.not /\ ~isNil) THEN r.e ELSE Nil

RECURSIVE RuleValidate(_, _)
RECURSIVE AndFrom(_, _, _, _)
RECURSIVE OrFrom(_, _, _, _)

\* AndFrom that hands the failing child's error on.
RECURSIVE AndFromChildErr(_, _, _, _)
AndFromChildErr(r, v, i, log) ==
    IF i > Len(r.rules) THEN [err |-> Nil, log |-> log]
    ELSE IF RuleValidate(r.rules[i], v) # Nil
         THEN [err |-> RuleValidate(r.rules[i], v), log |-> Append(log, i)]
         ELSE AndFromChildErr(r, v, i + 1, Append(log, i))

\* AndFrom with the loop's err overwritten by every child and tested only
\* after the loop: the last child decides.
RECURSIVE AndFromLastDecides(_, _, _, _)
AndFromLastDecides(r, v, i, log) ==
    IF i > Len(r.rules) THEN [err |-> Nil, log |-> log]
    ELSE IF i = Len(r.rules)
         THEN [err |-> IF RuleValidate(r.rules[i], v) # Nil THEN r.e ELSE Nil,
               log |-> Append(log, i)]
         ELSE AndFromLastDecides(r, v, i + 1, Append(log, i))

\* AndFrom without the early return: every child is evaluated.
RECURSIVE AndFromNoStop(_, _, _, _)
AndFromNoStop(r, v, i, log) ==
    IF i > Len(r.rules) THEN [err |-> Nil, log |-> log]
    ELSE LET rest == AndFromNoStop(r, v, i + 1, Append(log, i))
         IN [err |-> IF RuleValidate(r.rules[i], v) # Nil THEN r.e ELSE rest.err,
             log |-> rest.log]

\* case "AND" of ConditionRule.Validate, from child i on.
AndFrom(r, v, i, log) ==
    IF i > Len(r.rules) THEN [err |-> Nil, log |-> log]
    ELSE IF RuleValidate(r.rules[i], v) # Nil
         THEN [err |-> r.e, log |-> Append(log, i)]
         ELSE AndFrom(r, v, i + 1, Append(log, i))

\* OrFrom that hands on the error of the last child that failed.
RECURSIVE OrFromChildErr(_, _, _, _)
OrFromChildErr(r, v, i, log) ==
    IF i > Len(r.rules)
    THEN [err |-> IF r.rules = <<>> THEN r.e
                  ELSE RuleValidate(r.rules[Len(r.rules)], v),
          log |-> log]
    ELSE IF RuleValidate(r.rules[i], v) = Nil
         THEN [err |-> Nil, log |-> Append(log, i)]
         ELSE OrFromChildErr(r, v, i + 1, Append(log, i))

\* OrFrom that fails only when some child failed: no children, no failure.
RECURSIVE OrFromEmptyPasses(_, _, _, _)
OrFromEmptyPasses(r, v, i, log) ==
    IF i > Len(r.rules)
    THEN [err |-> IF Len(r.rules) = 0 THEN Nil ELSE r.e, log |-> log]
    ELSE IF RuleValidate(r.rules[i], v) = Nil
         THEN [err |-> Nil, log |-> Append(log, i)]
         ELSE OrFromEmptyPasses(r, v, i + 1, Append(log, i))

\* OrFrom without the early return: every child is evaluated.
RECURSIVE OrFromNoStop(_, _, _, _)
OrFromNoStop(r, v, i, log) ==
    IF i > Len(r.rules) THEN [err |-> r.e, log |-> log]
    ELSE LET rest == OrFromNoStop(r, v, i + 1, Append(log, i))
         IN [err |-> IF RuleValidate(r.rules[i], v) = Nil THEN Nil ELSE rest.err,
             log |-> rest.log]

\* case "OR" of ConditionRule.Validate, from child i on.
OrFrom(r, v, i, log) ==
    IF i > Len(r.rules) THEN [err |-> r.e, log |-> log]
    ELSE IF RuleValidate(r.rules[i], v) = Nil
         THEN [err |-> Nil, log |-> Append(log, i)]
         ELSE OrFrom(r, v, i + 1, Append(log, i))

ConditionRuleValidate(r, v) ==
    CASE r.kind = "AND" -> AndFrom(r, v, 1, <<>>)
      [] r.kind = "OR" -> OrFrom(r, v, 1, <<>>)
      [] OTHER -> [err |-> r.e, log |-> <<>>]

\* DependencyRule.Validate with the rule's own error returned when the
\* child fails.
DependencyRuleValidateOwnErr(r, v) ==
    IF r.validator = NoRule THEN [err |-> Nil, log |-> <<>>]
    ELSE [err |-> IF RuleValidate(r.validator, v[r.valueGetter]) # Nil
                  THEN r.e ELSE Nil,
          log |-> <<v>>]

\* DependencyRule.Validate with the valueGetter applied before the validator
\* is tested for nil.
DependencyRuleValidateGetterFirst(r, v) ==
    LET dependencyValue == v[r.valueGetter]
    IN IF r.validator = NoRule THEN [err |-> Nil, log |-> <<v>>]
       ELSE [err |-> RuleValidate(r.validator, dependencyValue), log |-> <<v>>]

\* DependencyRule.Validate: the error returned and the records the
\* valueGetter was applied to.
DependencyRuleValidate(r, v) ==
    IF r.validator = NoRule THEN [err |-> Nil, log |-> <<>>]
    ELSE LET dependencyValue == v[r.valueGetter]
         IN [err |-> RuleValidate(r.validator, dependencyValue), log |-> <<v>>]

\* Rule[T].Validate, dispatched on the dynamic type of the rule.
RuleValidate(r, v) ==
    CASE r.kind = "Min" -> MinRuleValidate(r, v)
      [] r.kind = "Max" -> MaxRuleValidate(r, v)
      [] r.kind = "Nil" -> NilRuleValidate(r, v)
      [] r.kind = "Dependency" -> DependencyRuleValidate(r, v).err
      [] r.kind = "MutualExclude" -> MutualExcludeRuleValidate(r, v)
      [] r.kind = "NonZero" -> NonZeroRuleValidate(r, v)
      [] OTHER -> ConditionRuleValidate(r, v).err

\* Errf, dispatched on the dynamic type of the rule: the rule as the call
\* leaves it.
RuleErrf(r, format) ==
    CASE r.kind = "Min" -> MinRuleErrf(r, format)
      [] r.kind = "Max" -> MaxRuleErrf(r, format)
      [] r.kind = "Nil" -> NilRuleErrf(r, format)
      [] r.kind = "Dependency" -> DependencyRuleErrf(r, format)
      [] r.kind = "MutualExclude" -> MutualExcludeRuleErrf(r, format)
      [] r.kind = "NonZero" -> NonZeroRuleErrf(r, format)
      [] r.kind = "Multiple" -> MultipleRuleErrf(r, format)
      [] OTHER -> ConditionRuleErrf(r, format)

\* Errf called through the pointer a into the heap h: the heap as the call
\* leaves it and the pointer returned (return r).
Errf(h, a, format) ==
    [heap |-> [h EXCEPT ![a] = RuleErrf(h[a], format)], ret |-> a]

----------------------------------------------------------------------------
\* Package arbiter.

\* ValidateFrom without the early return: the last failure is returned.
RECURSIVE ValidateFromNoStop(_, _, _, _)
ValidateFromNoStop(v, rs, i, log) ==
    IF i > Len(rs) THEN [err |-> Nil, log |-> log]
    ELSE LET err == RuleValidate(rs[i], v)
             rest == ValidateFromNoStop(v, rs, i + 1, Append(log, i))
         IN [err |-> IF rest.err # Nil THEN rest.err ELSE err, log |-> rest.log]

RECURSIVE ValidateFrom(_, _, _, _)
ValidateFrom(v, rs, i, log) ==
    IF i > Len(rs) THEN [err |-> Nil, log |-> log]
    ELSE LET err == RuleValidate(rs[i], v)
         IN IF err # Nil THEN [err |-> err, log |-> Append(log, i)]
            ELSE ValidateFrom(v, rs, i + 1, Append(log, i))

Validate(v, rs) == ValidateFrom(v, rs, 1, <<>>)

\* ValidateWithErrsFrom that stops collecting at the first failure.
RECURSIVE ValidateWithErrsFromStop(_, _, _, _, _)
ValidateWithErrsFromStop(v, rs, i, es, log) ==
    IF i > Len(rs) THEN [errs |-> es, log |-> log]
    ELSE LET err == RuleValidate(rs[i], v)
         IN IF err # Nil THEN [errs |-> Append(es, err), log |-> Append(log, i)]
            ELSE ValidateWithErrsFromStop(v, rs, i + 1, es, Append(log, i))

RECURSIVE ValidateWithErrsFrom(_, _, _, _, _)
ValidateWithErrsFrom(v, rs, i, es, log) ==
    IF i > Len(rs) THEN [errs |-> es, log |-> log]
    ELSE LET err == RuleValidate(rs[i], v)
         IN ValidateWithErrsFrom(v, rs, i + 1,
                IF err # Nil THEN Append(es, err) ELSE es, Append(log, i))

ValidateWithErrs(v, rs) == ValidateWithErrsFrom(v, rs, 1, <<>>, <<>>)

Field(field, rs) == [field |-> field, rules |-> rs]

\* FieldRule.validate, from rule i on: every iteration reads the slot the
\* binding points to (*f.field) and applies one rule to it.
\* FieldRuleFrom without the early return: the last failure is returned.
RECURSIVE FieldRuleFromNoStop(_, _, _, _)
FieldRuleFromNoStop(f, p, i, log) ==
    IF i > Len(f.rules) THEN [err |-> Nil, log |-> log]
    ELSE LET err == RuleValidate(f.rules[i], p[f.field])
             rest == FieldRuleFromNoStop(f, p, i + 1, Append(log, i))
         IN [err |-> IF rest.err # Nil THEN rest.err ELSE err, log |-> rest.log]

RECURSIVE FieldRuleFrom(_, _, _, _)
FieldRuleFrom(f, p, i, log) ==
    IF i > Len(f.rules) THEN [err |-> Nil, log |-> log]
    ELSE LET err == RuleValidate(f.rules[i], p[f.field])
         IN IF err # Nil THEN [err |-> err, log |-> Append(log, i)]
            ELSE FieldRuleFrom(f, p, i + 1, Append(log, i))

FieldRuleValidate(f, p) == FieldRuleFrom(f, p, 1, <<>>)

\* FieldsFrom without the early return: the last failure is returned.
RECURSIVE FieldsFromNoStop(_, _, _, _)
FieldsFromNoStop(fs, p, i, log) ==
    IF i > Len(fs) THEN [err |-> Nil, log |-> log]
    ELSE LET err == FieldRuleValidate(fs[i], p).err
             rest == FieldsFromNoStop(fs, p, i + 1, Append(log, i))
         IN [err |-> IF rest.err # Nil THEN rest.err ELSE err, log |-> rest.log]

RECURSIVE FieldsFrom(_, _, _, _)
FieldsFrom(fs, p, i, log) ==
    IF i > Len(fs) THEN [err |-> Nil, log |-> log]
    ELSE LET err == FieldRuleValidate(fs[i], p).err
         IN IF err # Nil THEN [err |-> err, log |-> Append(log, i)]
            ELSE FieldsFrom(fs, p, i + 1, Append(log, i))

\* ValidateStruct with the bindings validated before the nil check.
ValidateStructFieldsFirst(v, nilMsg, fs, notNil, p) ==
    IF v.kind # "Ptr" \/ (~v.isNil /\ v.elem # "Struct")
    THEN [err |-> ErrNotPointer, log |-> <<>>, NotNil |-> notNil]
    ELSE LET r == NilRuleErrf(notNil, nilMsg)
             res == FieldsFrom(fs, p, 1, <<>>)
             err == Validate(v, <<r>>).err
         IN [err |-> IF err # Nil THEN err ELSE res.err, log |-> res.log,
             NotNil |-> r]

\* ValidateStruct: the error returned, the bindings invoked, and the
\* package variable rule.NotNil as the call leaves it.
ValidateStruct(v, nilMsg, fs, notNil, p) ==
    IF v.kind # "Ptr" \/ (~v.isNil /\ v.elem # "Struct")
    THEN [err |-> ErrNotPointer, log |-> <<>>, NotNil |-> notNil]
    ELSE LET r == NilRuleErrf(notNil, nilMsg)
             err == Validate(v, <<r>>).err
         IN IF err # Nil
            THEN [err |-> err, log |-> <<>>, NotNil |-> r]
            ELSE LET res == FieldsFrom(fs, p, 1, <<>>)
                 IN [err |-> res.err, log |-> res.log, NotNil |-> r]

----------------------------------------------------------------------------
\* The caller's inputs.

SeqsUpTo(S, n) == UNION {[1..k -> S] : k \in 0..n}

\* Min(ms[1]).Errf(name 1), Min(ms[2]).Errf(name 2), ...: every rule of a
\* list has its own message.
StubRules(ms, prefix) ==
    [i \in 1..Len(ms) |-> MinRuleErrf(Min(ms[i]), prefix \o <<ErrNames[i]>>)]

RuleLists == {StubRules(ms, <<>>) : ms \in SeqsUpTo(Mins, MaxRules)}

FieldLists ==
    {[j \in 1..Len(mss) |-> Field("Age", StubRules(mss[j], <<ErrNames[j]>>))] :
        mss \in SeqsUpTo(SeqsUpTo(Mins, MaxFieldRules), MaxFields)}

Strings == SeqsUpTo(Chars, MaxLen)

Anys ==
    {ValueOf("Invalid", "None", FALSE), ValueOf("Struct", "None", FALSE),
     ValueOf("Int", "None", FALSE)}
    \cup {ValueOf("Ptr", elem, isNil) : elem \in {"Struct", "Int"}, isNil \in BOOLEAN}

Goroutines == 1..MaxGoroutines

\* A goroutine's frame before it has called anything.
NoLocals ==
    [nilErr |-> <<>>, err |-> Nil, pattern |-> "", re |-> "", rules |-> <<>>,
     i |-> 0, seen |-> <<>>]

----------------------------------------------------------------------------
\* The state machine.

Init ==
    /\ op = "idle"
    /\ value = 0
    /\ rules = <<>>
    /\ nilErr = <<>>
    /\ fields = <<>>
    /\ ret = Nil
    /\ errs = <<>>
    /\ invoked = <<>>
    /\ NotNil = Rule("Nil", ErrNotNil, 0, TRUE, <<>>)
    /\ person = [Age |-> 0]
    /\ heap = <<>>
    /\ ref = 0
    /\ fmtArg = <<>>
    /\ override = <<>>
    /\ bound = <<>>
    /\ snapshot = [Age |-> 0]
    /\ pc = [g \in Goroutines |-> "idle"]
    /\ local = [g \in Goroutines |-> NoLocals]
    /\ compiledRegexes = {}
    /\ regexMutex = [readers |-> {}, writer |-> 0]

CallValidate ==
    /\ op = "idle"
    /\ \E v \in Values, rs \in RuleLists :
        LET res == Validate(v, rs)
        IN /\ op' = "Validate"
           /\ value' = v
           /\ rules' = rs
           /\ ret' = res.err
           /\ invoked' = res.log
    /\ UNCHANGED <<nilErr, fields, errs, NotNil, person>>
    /\ UNCHANGED <<ruleVars, fieldVars>>
    /\ UNCHANGED goVars

CallValidateWithErrs ==
    /\ op = "idle"
    /\ \E v \in Values, rs \in RuleLists :
        LET res == ValidateWithErrs(v, rs)
        IN /\ op' = "ValidateWithErrs"
           /\ value' = v
           /\ rules' = rs
           /\ errs' = res.errs
           /\ invoked' = res.log
    /\ UNCHANGED <<nilErr, fields, ret, NotNil, person>>
    /\ UNCHANGED <<ruleVars, fieldVars>>
    /\ UNCHANGED goVars

CallValidateStruct ==
    /\ op = "idle"
    /\ \E v \in Anys, s \in Strings, fs \in FieldLists :
        LET res == ValidateStruct(v, s, fs, NotNil, person)
        IN /\ op' = "ValidateStruct"
           /\ value' = v
           /\ nilErr' = s
           /\ fields' = fs
           /\ ret' = res.err
           /\ invoked' = res.log
           /\ NotNil' = res.NotNil
    /\ UNCHANGED <<rules, errs, person>>
    /\ UNCHANGED <<ruleVars, fieldVars>>
    /\ UNCHANGED goVars

CallAnd ==
    /\ op = "idle"
    /\ \E v \in Values, rs \in RuleLists :
        LET res == ConditionRuleValidate(And(rs), v)
        IN /\ op' = "And"
           /\ value' = v
           /\ rules' = rs
           /\ ret' = res.err
           /\ invoked' = res.log
    /\ UNCHANGED <<nilErr, fields, errs, NotNil, person>>
    /\ UNCHANGED <<ruleVars, fieldVars>>
    /\ UNCHANGED goVars

CallOr ==
    /\ op = "idle"
    /\ \E v \in Values, rs \in RuleLists :
        LET res == ConditionRuleValidate(Or(rs), v)
        IN /\ op' = "Or"
           /\ value' = v
           /\ rules' = rs
           /\ ret' = res.err
           /\ invoked' = res.log
    /\ UNCHANGED <<nilErr, fields, errs, NotNil, person>>
    /\ UNCHANGED <<ruleVars, fieldVars>>
    /\ UNCHANGED goVars

\* The caller stores a value in the record's field.
SetAge ==
    /\ op = "idle"
    /\ \E v \in Values : v # person.Age /\ person' = [person EXCEPT !.Age = v]
    /\ UNCHANGED <<op, value, rules, nilErr, fields, ret, errs, invoked, NotNil>>
    /\ UNCHANGED <<ruleVars, bound, snapshot>>
    /\ UNCHANGED goVars

\* The caller takes the result; the package variable and the record stay.
\* A call that panicked has no result to take.
Return ==
    /\ op \notin {"idle", "panic"}
    /\ op' = "idle"
    /\ value' = 0
    /\ rules' = <<>>
    /\ nilErr' = <<>>
    /\ fields' = <<>>
    /\ ret' = Nil
    /\ errs' = <<>>
    /\ invoked' = <<>>
    /\ fmtArg' = <<>>
    /\ UNCHANGED <<NotNil, person, heap, ref, override, bound, snapshot>>
    /\ UNCHANGED goVars

Next ==
    \/ CallValidate
    \/ CallValidateWithErrs
    \/ CallValidateStruct
    \/ CallAnd
    \/ CallOr
    \/ SetAge
    \/ Return

Spec == Init /\ [][Next]_vars

----------------------------------------------------------------------------
\* One rule object: the caller constructs it, calls Errf on it and validates
\* values with it, in any order and any number of times.

Users == [Name : Values, Age : Values]

DependencyRules ==
    {Dependency("Name", "", validator, valueGetter) :
        validator \in {MinRuleErrf(Min(m), <<ErrNames[1]>>) : m \in Mins} \cup {NoRule},
        valueGetter \in {"Name", "Age"}}

\* T is string: the field names and the values are lists of strings, and 0
\* and 1 stand for two strings that either list may hold.
MutualExcludeRules ==
    {MutualExclude(fs, vs, compare) :
        fs \in SeqsUpTo(Values, MaxValues), vs \in SeqsUpTo(Values, MaxValues),
        compare \in {"eq", "lt", "nil"}}

NonZeroInputs ==
    {Reflect(k, st, "none") :
        k \in {"Int", "Float", "String", "Bool", "Struct"}, st \in {"zero", "nonzero"}}
    \cup {Reflect(k, st, "none") :
        k \in {"Slice", "Map"}, st \in {"nil", "empty", "nonzero"}}
    \cup {Reflect("Array", st, "none") : st \in {"empty", "nonzero"}}
    \cup {Reflect("Func", "nonzero", "none"), Reflect("Ptr", "nil", "none")}
    \cup {Reflect("Ptr", "nonzero", Reflect(k, st, "none")) :
        k \in {"Int", "Struct"}, st \in {"zero", "nonzero"}}

\* The values a rule of r's type parameter can be handed.
InputsOf(r) ==
    CASE r.kind = "Dependency" -> Users
      [] r.kind = "NonZero" -> NonZeroInputs
      [] OTHER -> Values

\* What a constructor leaves alone. Its result goes to a fresh address,
\* which it returns.
constructFrame ==
    <<op, value, rules, nilErr, fields, ret, errs, invoked, NotNil, person,
      fmtArg, override, bound, snapshot, pc, local, compiledRegexes,
      regexMutex>>

ConstructMin ==
    /\ op = "idle"
    /\ heap = <<>>
    /\ \E m \in Mins : heap' = Append(heap, Min(m))
    /\ ref' = Len(heap) + 1
    /\ UNCHANGED constructFrame

ConstructMax ==
    /\ op = "idle"
    /\ heap = <<>>
    /\ \E m \in Mins : heap' = Append(heap, Max(m))
    /\ ref' = Len(heap) + 1
    /\ UNCHANGED constructFrame

ConstructAnd ==
    /\ op = "idle"
    /\ heap = <<>>
    /\ \E rs \in RuleLists : heap' = Append(heap, And(rs))
    /\ ref' = Len(heap) + 1
    /\ UNCHANGED constructFrame

ConstructOr ==
    /\ op = "idle"
    /\ heap = <<>>
    /\ \E rs \in RuleLists : heap' = Append(heap, Or(rs))
    /\ ref' = Len(heap) + 1
    /\ UNCHANGED constructFrame

ConstructDependency ==
    /\ op = "idle"
    /\ heap = <<>>
    /\ \E r \in DependencyRules : heap' = Append(heap, r)
    /\ ref' = Len(heap) + 1
    /\ UNCHANGED constructFrame

ConstructMutualExclude ==
    /\ op = "idle"
    /\ heap = <<>>
    /\ \E r \in MutualExcludeRules : heap' = Append(heap, r)
    /\ ref' = Len(heap) + 1
    /\ UNCHANGED constructFrame

ConstructNonZero ==
    /\ op = "idle"
    /\ heap = <<>>
    /\ heap' = Append(heap, NonZero)
    /\ ref' = Len(heap) + 1
    /\ UNCHANGED constructFrame

CallErrf ==
    /\ op = "idle"
    /\ heap # <<>>
    /\ \E f \in Strings :
        LET res == Errf(heap, 1, f)
        IN /\ op' = "Errf"
           /\ fmtArg' = f
           /\ heap' = res.heap
           /\ ref' = res.ret
           /\ override' = IF f # <<>> THEN f ELSE override
    /\ UNCHANGED <<value, rules, nilErr, fields, ret, errs, invoked, NotNil,
                   person, bound, snapshot>>
    /\ UNCHANGED goVars

CallRuleValidate ==
    /\ op = "idle"
    /\ heap # <<>>
    /\ \E v \in InputsOf(heap[1]) :
        LET r == heap[1]
            res == CASE r.kind \in {"AND", "OR"} -> ConditionRuleValidate(r, v)
                     [] r.kind = "Dependency" -> DependencyRuleValidate(r, v)
                     [] OTHER -> [err |-> RuleValidate(r, v), log |-> <<>>]
        IN /\ op' = "RuleValidate"
           /\ value' = v
           /\ ret' = res.err
           /\ invoked' = res.log
    /\ UNCHANGED <<rules, nilErr, fields, errs, NotNil, person, ruleVars, fieldVars>>
    /\ UNCHANGED goVars

NextRule ==
    \/ ConstructMin
    \/ ConstructMax
    \/ ConstructAnd
    \/ ConstructOr
    \/ ConstructDependency
    \/ ConstructMutualExclude
    \/ ConstructNonZero
    \/ CallErrf
    \/ CallRuleValidate
    \/ Return

SpecRule == Init /\ [][NextRule]_vars

----------------------------------------------------------------------------
\* Nested And and Or rules: And(Or(Min(1), And()), Min(0)), ... . A rule with
\* n nodes is a leaf, or And or Or of a list of rules with n - 1 nodes in all.

RECURSIVE NestedRules(_)
RECURSIVE NestedLists(_)

NestedRules(n) ==
    IF n = 1 THEN {Min(m) : m \in Mins} \cup {And(<<>>), Or(<<>>)}
    ELSE {And(rs) : rs \in NestedLists(n - 1)} \cup {Or(rs) : rs \in NestedLists(n - 1)}

NestedLists(n) ==
    IF n = 0 THEN {<<>>}
    ELSE UNION {{<<r>> \o rs : r \in NestedRules(k), rs \in NestedLists(n - k)} :
                    k \in 1..n}

ConditionRules ==
    {r \in UNION {NestedRules(n) : n \in 1..MaxNodes} : r.kind \in {"AND", "OR"}}

ConstructNested ==
    /\ op = "idle"
    /\ heap = <<>>
    /\ \E r \in ConditionRules : heap' = Append(heap, r)
    /\ ref' = Len(heap) + 1
    /\ UNCHANGED constructFrame

NextNested ==
    \/ ConstructNested
    \/ CallErrf
    \/ CallRuleValidate
    \/ Return

SpecNested == Init /\ [][NextNested]_vars

----------------------------------------------------------------------------
\* MultipleOf(base), then Errf and Validate calls on it.

Ints == (-MaxAbs)..MaxAbs

ConstructMultipleOf ==
    /\ op = "idle"
    /\ heap = <<>>
    /\ \E base \in Ints : heap' = Append(heap, MultipleOf(base))
    /\ ref' = Len(heap) + 1
    /\ UNCHANGED constructFrame

CallMultipleValidate ==
    /\ op = "idle"
    /\ heap # <<>>
    /\ \E v \in Ints :
        LET res == MultipleRuleValidate(heap[1], v)
        IN /\ op' = IF res.panic THEN "panic" ELSE "RuleValidate"
           /\ value' = v
           /\ ret' = res.err
    /\ UNCHANGED <<rules, nilErr, fields, errs, invoked, NotNil, person,
                   ruleVars, fieldVars>>
    /\ UNCHANGED goVars

NextMultiple ==
    \/ ConstructMultipleOf
    \/ CallErrf
    \/ CallMultipleValidate
    \/ Return

SpecMultiple == Init /\ [][NextMultiple]_vars

----------------------------------------------------------------------------
\* What the properties below are stated in: which rules of the call reject
\* the value (a MinRule rejects a value below its threshold), and index lists.

Failing == {i \in 1..Len(rules) : value < rules[i].min}

Passing == {i \in 1..Len(rules) : value >= rules[i].min}

First(S) == CHOOSE i \in S : \A j \in S : i <= j

\* The k-th smallest element of S.
Kth(S, k) == CHOOSE i \in S : Cardinality({j \in S : j <= i}) = k

UpTo(n) == [i \in 1..n |-> i]

IsPtr(v, elem, isNil) == v.kind = "Ptr" /\ v.elem = elem /\ v.isNil = isNil

\* The rules of binding j that reject the field's value.
FailingIn(j) ==
    {i \in 1..Len(fields[j].rules) : person[fields[j].field] < fields[j].rules[i].min}

FailingFields == {j \in 1..Len(fields) : FailingIn(j) # {}}

\* C1: Validate invokes the rules in list order and stops at the first rule
\* that fails, returns that rule's error itself, and returns nil iff every
\* rule passes.
C1_ValidateFirstFailure ==
    op = "Validate" =>
        IF Failing = {}
        THEN ret = Nil /\ invoked = UpTo(Len(rules))
        ELSE /\ ret = rules[First(Failing)].e
             /\ ret # Nil
             /\ invoked = UpTo(First(Failing))

C1_Witness ==
    /\ op = "Validate"
    /\ Len(rules) = 3
    /\ Failing = {2, 3}
    /\ ret = rules[2].e
    /\ invoked = <<1, 2>>

\* C2: ValidateWithErrs invokes every rule exactly once, in order, and returns
\* exactly the errors of the failing rules, in the order of those rules.
C2_ValidateWithErrsAll ==
    op = "ValidateWithErrs" =>
        /\ invoked = UpTo(Len(rules))
        /\ Len(errs) = Cardinality(Failing)
        /\ \A k \in 1..Len(errs) : errs[k] = rules[Kth(Failing, k)].e

C2_Witness ==
    /\ op = "ValidateWithErrs"
    /\ Len(rules) = 4
    /\ Failing = {1, 2, 4}
    /\ errs = <<rules[1].e, rules[2].e, rules[4].e>>

\* C3: with a nil pointer to a struct, ValidateStruct invokes no field binding
\* and returns a non-nil error.
C3_NilStructNoBinding ==
    op = "ValidateStruct" /\ IsPtr(value, "Struct", TRUE) =>
        invoked = <<>> /\ ret # Nil

C3_Witness ==
    /\ op = "ValidateStruct"
    /\ IsPtr(value, "Struct", TRUE)
    /\ Len(fields) = 2
    /\ FailingFields = {}
    /\ invoked = <<>>
    /\ ret # Nil

\* C4: with a nil pointer to a struct, the message of the error ValidateStruct
\* returns is the nilErr string, for every nilErr.
C4_NilErrVerbatim ==
    op = "ValidateStruct" /\ IsPtr(value, "Struct", TRUE) =>
        ret = NewError(nilErr)

\* C5: for every argument that is not a pointer to a struct, ValidateStruct
\* returns "value must be a pointer" and invokes no field binding.
C5_ShapeCheckFirst ==
    op = "ValidateStruct" /\ ~(value.kind = "Ptr" /\ value.elem = "Struct") =>
        ret = ErrNotPointer /\ invoked = <<>>

\* C6: with a non-nil pointer to a struct, ValidateStruct invokes the bindings
\* in argument order, stops at the first binding that fails and returns its
\* error (that of the binding's first failing rule), and returns nil iff every
\* binding passes.
C6_StructFirstFailingField ==
    op = "ValidateStruct" /\ IsPtr(value, "Struct", FALSE) =>
        IF FailingFields = {}
        THEN ret = Nil /\ invoked = UpTo(Len(fields))
        ELSE LET j == First(FailingFields)
             IN /\ ret = fields[j].rules[First(FailingIn(j))].e
                /\ ret # Nil
                /\ invoked = UpTo(j)

C6_Witness ==
    /\ op = "ValidateStruct"
    /\ IsPtr(value, "Struct", FALSE)
    /\ Len(fields) = 2
    /\ FailingFields = {1, 2}
    /\ ret = fields[1].rules[1].e
    /\ invoked = <<1>>

\* C7: And(children).Validate returns nil iff every child passes; with no
\* children it passes.
C7_AndIffAllPass ==
    op = "And" => (ret = Nil <=> Failing = {})

C7_Witness ==
    /\ op = "And"
    /\ rules = <<>>
    /\ ret = Nil

\* C8: Or(children).Validate returns nil iff some child passes; with no
\* children it fails.
C8_OrIffSomePass ==
    op = "Or" => (ret = Nil <=> Passing # {})

C8_Witness ==
    /\ op = "Or"
    /\ rules = <<>>
    /\ ret # Nil

\* C9: And evaluates its children in list order, each once, up to and
\* including the first failing child and no further.
C9_AndStopsAtFirstFailure ==
    op = "And" =>
        invoked = UpTo(IF Failing = {} THEN Len(rules) ELSE First(Failing))

C9_Witness ==
    /\ op = "And"
    /\ Len(rules) = 3
    /\ Failing = {2}
    /\ invoked = <<1, 2>>
    /\ ret # Nil

\* C10: Or evaluates its children in list order up to and including the first
\* passing child and no further, and then succeeds.
C10_OrStopsAtFirstPass ==
    op = "Or" =>
        /\ invoked = UpTo(IF Passing = {} THEN Len(rules) ELSE First(Passing))
        /\ Passing # {} => ret = Nil

C10_Witness ==
    /\ op = "Or"
    /\ Len(rules) = 3
    /\ Passing = {2}
    /\ invoked = <<1, 2>>
    /\ ret = Nil

----------------------------------------------------------------------------
\* Bindings built with Field before the record gets its values: the caller
\* builds the bindings, writes the field, and validates with the bindings.

BindFields ==
    /\ op = "idle"
    /\ \E fs \in FieldLists : bound' = fs
    /\ snapshot' = person
    /\ UNCHANGED <<op, value, rules, nilErr, fields, ret, errs, invoked, NotNil,
                   person, ruleVars>>
    /\ UNCHANGED goVars

\* CallValidateStructBound with bindings that hold the field's value as it
\* was when Field was called.
CallValidateStructBoundStale ==
    /\ op = "idle"
    /\ \E s \in Strings :
        LET v == ValueOf("Ptr", "Struct", FALSE)
            res == ValidateStruct(v, s, bound, NotNil, snapshot)
        IN /\ op' = "ValidateStruct"
           /\ value' = v
           /\ nilErr' = s
           /\ fields' = bound
           /\ ret' = res.err
           /\ invoked' = res.log
           /\ NotNil' = res.NotNil
    /\ UNCHANGED <<rules, errs, person, ruleVars, fieldVars>>
    /\ UNCHANGED goVars

\* ValidateStruct(&person, s, bound...): the bindings read the record now.
CallValidateStructBound ==
    /\ op = "idle"
    /\ \E s \in Strings :
        LET v == ValueOf("Ptr", "Struct", FALSE)
            res == ValidateStruct(v, s, bound, NotNil, person)
        IN /\ op' = "ValidateStruct"
           /\ value' = v
           /\ nilErr' = s
           /\ fields' = bound
           /\ ret' = res.err
           /\ invoked' = res.log
           /\ NotNil' = res.NotNil
    /\ UNCHANGED <<rules, errs, person, ruleVars, fieldVars>>
    /\ UNCHANGED goVars

\* Field(&person.Age, rs...).validate(), called on its own.
CallFieldRuleValidate ==
    /\ op = "idle"
    /\ \E rs \in RuleLists :
        LET f == Field("Age", rs)
            res == FieldRuleValidate(f, person)
        IN /\ op' = "validate"
           /\ fields' = <<f>>
           /\ ret' = res.err
           /\ invoked' = res.log
    /\ UNCHANGED <<value, rules, nilErr, errs, NotNil, person, ruleVars, fieldVars>>
    /\ UNCHANGED goVars

NextField ==
    \/ BindFields
    \/ SetAge
    \/ CallValidateStructBound
    \/ CallFieldRuleValidate
    \/ Return

SpecField == Init /\ [][NextField]_vars

----------------------------------------------------------------------------
\* ValidateStruct(person, "nil", Field(&person.Age, Min(0), Max(120))) for
\* the ages around the two limits.

Ages == (MinAge - AgeMargin)..(MaxAge + AgeMargin)

SetAgeTo ==
    /\ op = "idle"
    /\ \E a \in Ages : a # person.Age /\ person' = [person EXCEPT !.Age = a]
    /\ UNCHANGED <<op, value, rules, nilErr, fields, ret, errs, invoked, NotNil>>
    /\ UNCHANGED <<ruleVars, fieldVars>>
    /\ UNCHANGED goVars

CallValidateStructAge ==
    /\ op = "idle"
    /\ LET v == ValueOf("Ptr", "Struct", FALSE)
           fs == <<Field("Age", <<Min(MinAge), Max(MaxAge)>>)>>
           res == ValidateStruct(v, <<"nil">>, fs, NotNil, person)
       IN /\ op' = "ValidateStruct"
          /\ value' = v
          /\ nilErr' = <<"nil">>
          /\ fields' = fs
          /\ ret' = res.err
          /\ invoked' = res.log
          /\ NotNil' = res.NotNil
    /\ UNCHANGED <<rules, errs, person, ruleVars, fieldVars>>
    /\ UNCHANGED goVars

NextAge ==
    \/ SetAgeTo
    \/ CallValidateStructAge
    \/ Return

SpecAge == Init /\ [][NextAge]_vars

----------------------------------------------------------------------------
\* The rule object of SpecRule: the failure description its constructor
\* installs, and the description it should hold after the Errf calls made.

DefaultErr(kind) ==
    CASE kind = "Min" -> ErrMin
      [] kind = "Max" -> ErrMax
      [] kind \in {"AND", "OR"} -> ErrCondition
      [] kind = "Dependency" -> ErrDependency
      [] kind = "MutualExclude" -> ErrMutualExclude
      [] kind = "NonZero" -> ErrNonZero

NoVerbs(f) == \A i \in 1..Len(f) : f[i] # "%"

\* The error a format installs: its text when it holds no verbs, and
\* otherwise what formatting it with no operands gives.
Installed(f) == IF NoVerbs(f) THEN NewError(f) ELSE Errorf(f)

OwnDescription ==
    IF override = <<>> THEN DefaultErr(heap[1].kind) ELSE Installed(override)

Validated(kinds) == op = "RuleValidate" /\ heap[1].kind \in kinds

\* The children of the And or Or object that reject the value.
FailingChildren ==
    {i \in 1..Len(heap[1].rules) : value < heap[1].rules[i].min}

\* C11: a failing And or Or returns its own failure description (ErrCondition,
\* or what the last non-empty Errf installed), never a child's error.
C11_CompoundOwnError ==
    Validated({"AND", "OR"}) /\ ret # Nil =>
        /\ ret = OwnDescription
        /\ \A i \in 1..Len(heap[1].rules) : ret # heap[1].rules[i].e

C11_Witness ==
    /\ Validated({"AND"})
    /\ Len(heap[1].rules) = 3
    /\ FailingChildren = {2, 3}
    /\ override = <<"a">>
    /\ ret = NewError(<<"a">>)

\* C12: a Dependency rule with a child applies the extractor once, to the
\* record validated, and returns what the child returns for the extracted
\* value: nil, or the child's own error.
C12_DependencyDelegates ==
    Validated({"Dependency"}) /\ heap[1].validator # NoRule =>
        /\ invoked = <<value>>
        /\ ret = IF value[heap[1].valueGetter] < heap[1].validator.min
                 THEN heap[1].validator.e
                 ELSE Nil

C12_Witness ==
    /\ Validated({"Dependency"})
    /\ heap[1].validator # NoRule
    /\ heap[1].valueGetter = "Age"
    /\ value.Age < heap[1].validator.min
    /\ value.Name >= heap[1].validator.min
    /\ ret = heap[1].validator.e

\* C13: after Errf(m) with a non-empty m, a Dependency rule whose child fails
\* returns the error with message m.
C13_DependencyCustomMessage ==
    Validated({"Dependency"}) /\ override # <<>> /\ ret # Nil =>
        ret = OwnDescription

\* C14: with a comparator, MutualExclude returns nil iff the comparator holds
\* of (a, x) for some element a of values, and otherwise its own failure
\* description; with no values it fails.
C14_MutualExcludeMembership ==
    Validated({"MutualExclude"}) /\ heap[1].compare # "nil" =>
        IF \E i \in 1..Len(heap[1].values) :
               Compare(heap[1].compare, heap[1].values[i], value)
        THEN ret = Nil
        ELSE ret = OwnDescription /\ ret # Nil

C14_Witness ==
    /\ Validated({"MutualExclude"})
    /\ heap[1].compare = "lt"
    /\ heap[1].values = <<1, 0>>
    /\ value = 1
    /\ ret = Nil

\* C15: for every rule, Errf with an empty format leaves the failure
\* description as it is, Errf with a non-empty format replaces it, so that
\* the last non-empty format wins and is what a failing Validate returns;
\* and Errf returns the rule it was called on.
C15_ErrfLastNonEmptyWins ==
    /\ heap # <<>> => heap[1].e = OwnDescription
    /\ op = "Errf" => ref = 1
    /\ op = "RuleValidate" /\ override # <<>> /\ ret # Nil => ret = OwnDescription

\* C16: once Errf(m) has overridden a rule's failure description (m without
\* verbs), every failing Validate on the rule returns the error with message
\* m, and Validate leaves the stored description alone.
C16_OverrideReturnedOnFailure ==
    /\ op = "RuleValidate" /\ override # <<>> /\ NoVerbs(override) =>
        /\ heap[1].e = NewError(override)
        /\ ret # Nil => ret = NewError(override)

\* C17: NonZero().Errf(m) with a non-empty m makes every failing Validate
\* return the error with message m, whatever kind of zero value is rejected.
C17_NonZeroCustomMessage ==
    Validated({"NonZero"}) /\ override # <<>> /\ ret # Nil =>
        ret = OwnDescription

\* The rule that decides a call of ValidateStruct or validate on the record
\* p: the first failing rule of the first failing binding; <<>> if none fails.
FailingAt(p, j) ==
    {i \in 1..Len(fields[j].rules) : p[fields[j].field] < fields[j].rules[i].min}

Expected(p) ==
    LET F == {j \in 1..Len(fields) : FailingAt(p, j) # {}}
    IN IF F = {} THEN Nil
       ELSE fields[First(F)].rules[First(FailingAt(p, First(F)))].e

\* C18: a binding built with Field reads its slot when it is validated: the
\* rules are applied to the value the field holds at the call of
\* ValidateStruct, not to the value it held when Field was called.
C18_ReadsSlotAtValidation ==
    op = "ValidateStruct" => ret = Expected(person)

C18_Witness ==
    /\ op = "ValidateStruct"
    /\ Len(fields) = 1
    /\ snapshot.Age # person.Age
    /\ Expected(snapshot) = Nil
    /\ ret # Nil
    /\ ret = fields[1].rules[1].e

\* C19: FieldRule.validate applies its rules to the field's value in list
\* order, returns the first failing rule's error itself and invokes no rule
\* after it, and returns nil iff every rule passes.
C19_FieldRuleFirstFailure ==
    op = "validate" =>
        IF FailingIn(1) = {}
        THEN ret = Nil /\ invoked = UpTo(Len(fields[1].rules))
        ELSE /\ ret = fields[1].rules[First(FailingIn(1))].e
             /\ ret # Nil
             /\ invoked = UpTo(First(FailingIn(1)))

C19_Witness ==
    /\ op = "validate"
    /\ Len(fields[1].rules) = 3
    /\ FailingIn(1) = {2, 3}
    /\ ret = fields[1].rules[2].e
    /\ invoked = <<1, 2>>

\* C20: ValidateStruct(person, "nil", Field(&person.Age, Min(0), Max(120)))
\* returns ErrMin for an age below 0, ErrMax for an age above 120, and nil for
\* an age from 0 to 120, both included.
C20_AgeLimits ==
    op = "ValidateStruct" =>
        ret = IF person.Age < MinAge THEN ErrMin
              ELSE IF person.Age > MaxAge THEN ErrMax
              ELSE Nil

C20_Witness ==
    /\ op = "ValidateStruct"
    /\ person.Age = MaxAge
    /\ ret = Nil

\* The boolean formula of a nested rule at the value v: a leaf is true when
\* it accepts v, And is the conjunction and Or the disjunction of its list.
RECURSIVE Formula(_, _)
Formula(r, v) ==
    CASE r.kind = "AND" -> \A i \in 1..Len(r.rules) : Formula(r.rules[i], v)
      [] r.kind = "OR" -> \E i \in 1..Len(r.rules) : Formula(r.rules[i], v)
      [] r.kind = "Min" -> v >= r.min

RECURSIVE Depth(_)
Depth(r) ==
    IF r.kind = "Min" \/ r.rules = <<>> THEN 1
    ELSE LET d == {Depth(r.rules[i]) : i \in 1..Len(r.rules)}
         IN 1 + CHOOSE m \in d : \A k \in d : k <= m

\* C21: And and Or nest: the root of a tree of And and Or rules over leaves
\* returns nil iff the tree's boolean formula is true of the value, and a
\* failing root returns the root's own failure description.
C21_NestedFormula ==
    Validated({"AND", "OR"}) =>
        /\ ret = Nil <=> Formula(heap[1], value)
        /\ ret # Nil => ret = OwnDescription

C21_Witness ==
    /\ Validated({"AND"})
    /\ Len(heap[1].rules) = 1
    /\ Depth(heap[1]) = 3
    /\ heap[1].rules[1].kind = "OR"
    /\ Len(heap[1].rules[1].rules) = 2
    /\ ~Formula(heap[1].rules[1].rules[1], value)
    /\ Formula(heap[1].rules[1].rules[2], value)
    /\ ret = Nil

\* C26: a Dependency rule constructed with a nil validator passes for every
\* input without applying the extractor, also after Errf has installed a
\* message.
C26_NilValidatorPasses ==
    Validated({"Dependency"}) /\ heap[1].validator = NoRule =>
        ret = Nil /\ invoked = <<>>

C26_Witness ==
    /\ Validated({"Dependency"})
    /\ heap[1].validator = NoRule
    /\ override = <<"a">>
    /\ heap[1].e = NewError(<<"a">>)
    /\ ret = Nil
    /\ invoked = <<>>

\* C27: a MutualExclude rule constructed with a nil comparator passes for
\* every input, whatever its values list holds, and never returns its
\* failure description.
C27_NilComparatorPasses ==
    Validated({"MutualExclude"}) /\ heap[1].compare = "nil" => ret = Nil

C27_Witness ==
    /\ Validated({"MutualExclude"})
    /\ heap[1].compare = "nil"
    /\ heap[1].values = <<>>
    /\ override # <<>>
    /\ ret = Nil

\* C28: the result of MutualExclude(fields, values, eq).Validate(x) depends
\* on values, eq and x only: the rule with any other fields list returns the
\* same result, so only the values list is scanned for a match.
C28_FieldsListUnused ==
    Validated({"MutualExclude"}) =>
        \A fs \in SeqsUpTo(Values, MaxValues) :
            MutualExcludeRuleValidate([heap[1] EXCEPT !.fields = fs], value) = ret

C28_Witness ==
    /\ Validated({"MutualExclude"})
    /\ heap[1].compare = "eq"
    /\ heap[1].fields = <<0>>
    /\ heap[1].values = <<1>>
    /\ value = 1
    /\ ret = Nil

\* rule.NotNil as the package initialises it.
FreshNotNil == Rule("Nil", ErrNotNil, 0, TRUE, <<>>)

\* C23: ValidateStruct does not modify the shared predefined rule
\* rule.NotNil: after any sequence of ValidateStruct calls,
\* rule.NotNil.Validate(nil) still returns ErrNotNil.
C23_NotNilUnmodified ==
    NilRuleValidate(NotNil, ValueOf("Invalid", "None", FALSE)) = ErrNotNil

\* C24: ValidateStruct is deterministic in its arguments: a call returns what
\* the same call (same record, nilErr and bindings) returns when no other
\* ValidateStruct call was made before it; in particular a nil record with an
\* empty nilErr always yields the same message.
C24_DeterministicInArguments ==
    op = "ValidateStruct" =>
        ret = ValidateStruct(value, nilErr, fields, FreshNotNil, person).err

\* C30: every rule's Validate returns nil or an error and never panics; in
\* particular MultipleOf(base).Validate(v) returns for every base and v,
\* base = 0 included.
C30_ValidateReturns ==
    op # "panic"

----------------------------------------------------------------------------
\* Goroutines that call ValidateStruct on nil struct pointers at the same
\* time, each with a message of its own. A call is three steps: the shape
\* test, rule.NotNil.Errf(nilErr), which stores into the package variable,
\* and Validate(value, r), which loads the rule's error. The store and the
\* load are not synchronised; a load that races with a store yields the
\* error stored before or after it, which is the order of the two steps.

callVars == <<op, value, rules, nilErr, fields, ret, errs, invoked>>

\* The nilErr messages: non-empty, and without verbs, so that fmt.Errorf
\* leaves them as they are.
Messages == {<<"A">>, <<"B">>, <<"C">>}

GoValidateStruct(g) ==
    /\ pc[g] = "idle"
    /\ \E m \in Messages :
        /\ \A h \in Goroutines \ {g} : pc[h] # "idle" => local[h].nilErr # m
        /\ LET v == ValueOf("Ptr", "Struct", TRUE)
           IN IF v.kind # "Ptr" \/ (~v.isNil /\ v.elem # "Struct")
              THEN /\ pc' = [pc EXCEPT ![g] = "returned"]
                   /\ local' = [local EXCEPT ![g].nilErr = m, ![g].err = ErrNotPointer]
              ELSE /\ pc' = [pc EXCEPT ![g] = "Errf"]
                   /\ local' = [local EXCEPT ![g].nilErr = m]
    /\ UNCHANGED <<callVars, NotNil, person, ruleVars, fieldVars,
                   compiledRegexes, regexMutex>>

GoErrf(g) ==
    /\ pc[g] = "Errf"
    /\ NotNil' = NilRuleErrf(NotNil, local[g].nilErr)
    /\ pc' = [pc EXCEPT ![g] = "Validate"]
    /\ UNCHANGED <<callVars, person, ruleVars, fieldVars, local,
                   compiledRegexes, regexMutex>>

GoValidate(g) ==
    /\ pc[g] = "Validate"
    /\ LET err == Validate(ValueOf("Ptr", "Struct", TRUE), <<NotNil>>).err
       IN local' = [local EXCEPT ![g].err = err]
    /\ pc' = [pc EXCEPT ![g] = "returned"]
    /\ UNCHANGED <<callVars, NotNil, person, ruleVars, fieldVars,
                   compiledRegexes, regexMutex>>

GoReturn(g) ==
    /\ pc[g] = "returned"
    /\ pc' = [pc EXCEPT ![g] = "idle"]
    /\ local' = [local EXCEPT ![g] = NoLocals]
    /\ UNCHANGED <<callVars, NotNil, person, ruleVars, fieldVars,
                   compiledRegexes, regexMutex>>

NextConcurrent ==
    \E g \in Goroutines :
        \/ GoValidateStruct(g)
        \/ GoErrf(g)
        \/ GoValidate(g)
        \/ GoReturn(g)

SpecConcurrent == Init /\ [][NextConcurrent]_vars

\* C22: ValidateStruct is safe to call concurrently: when goroutines call it
\* at the same time on nil struct pointers with different non-empty nilErr
\* messages, each call returns its own message in every interleaving, never
\* another call's.
C22_OwnMessageReturned ==
    \A g \in Goroutines :
        pc[g] = "returned" => local[g].err = NewError(local[g].nilErr)

----------------------------------------------------------------------------
\* FieldRule.validate run by goroutine 1 while another goroutine stores into
\* the field the binding points to. Every turn of the loop is a step: it
\* loads *f.field and hands the value to the next rule. The load and the
\* store are not synchronised; the int loaded is the one stored before or
\* after it.

GoFieldValidate(g) ==
    /\ pc[g] = "idle"
    /\ \E rs \in RuleLists :
        local' = [local EXCEPT ![g].rules = rs, ![g].i = 1]
    /\ pc' = [pc EXCEPT ![g] = "range"]
    /\ UNCHANGED <<callVars, NotNil, person, ruleVars, fieldVars,
                   compiledRegexes, regexMutex>>

\* One turn of "for _, rule := range f.rules": the values the rules were
\* handed are kept in seen.
GoFieldRule(g) ==
    /\ pc[g] = "range"
    /\ LET f == Field("Age", local[g].rules)
           i == local[g].i
       IN IF i > Len(f.rules)
          THEN /\ local' = [local EXCEPT ![g].err = Nil]
               /\ pc' = [pc EXCEPT ![g] = "returned"]
          ELSE LET err == RuleValidate(f.rules[i], person[f.field])
               IN /\ local' = [local EXCEPT
                                  ![g].seen = Append(@, person[f.field]),
                                  ![g].err = err,
                                  ![g].i = i + 1]
                  /\ pc' = [pc EXCEPT ![g] = IF err # Nil THEN "returned" ELSE "range"]
    /\ UNCHANGED <<callVars, NotNil, person, ruleVars, fieldVars,
                   compiledRegexes, regexMutex>>

\* The other goroutine's store into the field.
WriteAge ==
    /\ \E v \in Values : v # person.Age /\ person' = [person EXCEPT !.Age = v]
    /\ UNCHANGED <<callVars, NotNil, ruleVars, fieldVars, goVars>>

NextFieldRace ==
    \/ GoFieldValidate(1)
    \/ GoFieldRule(1)
    \/ GoReturn(1)
    \/ WriteAge

SpecFieldRace == Init /\ [][NextFieldRace]_vars

\* C25: within one FieldRule.validate call the slot is dereferenced once, so
\* all rules of the binding are applied to the same value, also when another
\* writer changes the field while validate runs: no two rules of one call
\* observe different field values.
C25_OneValuePerCall ==
    \A g \in Goroutines :
        \A j, k \in 1..Len(local[g].seen) : local[g].seen[j] = local[g].seen[k]

----------------------------------------------------------------------------
\* Goroutines that construct regex rules at the same time: IsEmail, IsPhone
\* and Regex(pattern) call getCompiledRegex, whose statements are the steps.
\* "(" is a pattern regexp.Compile rejects.

Patterns == {"email", "phone", "("}

Compile(pattern) ==
    IF pattern = "("
    THEN [re |-> "", err |-> NewError(<<"error parsing regexp">>)]
    ELSE [re |-> pattern, err |-> Nil]

\* Where a goroutine is about to read the map, and about to write it.
MapReads == {"lookup1", "lookup2"}

MapWrites == {"store"}

\* The map access goroutine g is about to make has no ordering with an
\* access of another goroutine, one of the two being a write.
Races(g) ==
    \E h \in Goroutines \ {g} :
        \/ pc[g] \in MapWrites /\ pc[h] \in MapReads \cup MapWrites
        \/ pc[g] \in MapReads /\ pc[h] \in MapWrites

Running == \A g \in Goroutines : pc[g] # "fatal"

\* The runtime may find a racing map access out and stop the program
\* ("fatal error: concurrent map writes").
GoFatal(g) ==
    /\ Running
    /\ Races(g)
    /\ pc' = [pc EXCEPT ![g] = "fatal"]
    /\ UNCHANGED <<callVars, NotNil, person, ruleVars, fieldVars, local,
                   compiledRegexes, regexMutex>>

\* regexMutex.RLock(); defer regexMutex.RUnlock()
GoRLock(g) ==
    /\ Running
    /\ pc[g] = "idle"
    /\ regexMutex.writer = 0
    /\ regexMutex' = [regexMutex EXCEPT !.readers = @ \cup {g}]
    /\ \E pattern \in Patterns : local' = [local EXCEPT ![g].pattern = pattern]
    /\ pc' = [pc EXCEPT ![g] = "lookup1"]
    /\ UNCHANGED <<callVars, NotNil, person, ruleVars, fieldVars, compiledRegexes>>

\* if re, ok := compiledRegexes[pattern]; ok { return re, nil }, which the
\* function holds twice.
GoLookup(g) ==
    /\ Running
    /\ pc[g] \in MapReads
    /\ IF local[g].pattern \in compiledRegexes
       THEN /\ local' = [local EXCEPT ![g].re = local[g].pattern, ![g].err = Nil]
            /\ pc' = [pc EXCEPT ![g] = "RUnlock"]
       ELSE /\ pc' = [pc EXCEPT ![g] = IF pc[g] = "lookup1" THEN "lookup2" ELSE "Compile"]
            /\ UNCHANGED local
    /\ UNCHANGED <<callVars, NotNil, person, ruleVars, fieldVars,
                   compiledRegexes, regexMutex>>

\* re, err := regexp.Compile(pattern); if err != nil { return nil, err }
GoCompile(g) ==
    /\ Running
    /\ pc[g] = "Compile"
    /\ LET res == Compile(local[g].pattern)
       IN /\ local' = [local EXCEPT ![g].re = res.re, ![g].err = res.err]
          /\ pc' = [pc EXCEPT ![g] = IF res.err # Nil THEN "RUnlock" ELSE "store"]
    /\ UNCHANGED <<callVars, NotNil, person, ruleVars, fieldVars,
                   compiledRegexes, regexMutex>>

\* compiledRegexes[pattern] = re; return re, nil
GoStore(g) ==
    /\ Running
    /\ pc[g] = "store"
    /\ compiledRegexes' = compiledRegexes \cup {local[g].pattern}
    /\ pc' = [pc EXCEPT ![g] = "RUnlock"]
    /\ UNCHANGED <<callVars, NotNil, person, ruleVars, fieldVars, local, regexMutex>>

\* The deferred regexMutex.RUnlock(), run as the function returns.
GoRUnlock(g) ==
    /\ Running
    /\ pc[g] = "RUnlock"
    /\ regexMutex' = [regexMutex EXCEPT !.readers = @ \ {g}]
    /\ pc' = [pc EXCEPT ![g] = "returned"]
    /\ UNCHANGED <<callVars, NotNil, person, ruleVars, fieldVars, local,
                   compiledRegexes>>

NextRegex ==
    \E g \in Goroutines :
        \/ GoRLock(g)
        \/ GoLookup(g)
        \/ GoCompile(g)
        \/ GoStore(g)
        \/ GoRUnlock(g)
        \/ GoFatal(g)
        \/ Running /\ GoReturn(g)

SpecRegex == Init /\ [][NextRegex]_vars

\* C29: the accesses to the compiled-regex cache are synchronised: when
\* goroutines construct regex rules at the same time for patterns not yet
\* cached, no write to the compiledRegexes map happens concurrently with
\* another write or with a read of the map.
C29_NoRacingMapWrite ==
    \A g \in Goroutines : ~Races(g)

====
